---- MODULE Spec2Model ----
(***************************************************************************)
(* A model of the Eco-sustainable-bot backend.                             *)
(*                                                                         *)
(*   backend/rag.py       create_rag: load-or-build of the Chroma index    *)
(*   backend/app.py       the in-memory FastAPI application                *)
(*   backend/database.py  the database-backed FastAPI application (chat)   *)
(*                                                                         *)
(* Four specifications share the module: SpecRag (the file system and      *)
(* create_rag), SpecApp (the in-memory handlers), SpecChat (the two chat   *)
(* handlers) and SpecQuery (the query engine of the design document, which *)
(* has no code in the repository).                                         *)
(***************************************************************************)
EXTENDS Integers, Sequences, FiniteSets, TLC

VARIABLES
    docs,       \* the directory DOCS_DIR: [exists, files]
    db,         \* the directory DB_DIR: [exists, entries]
    ret,        \* what the last operation did and returned
    built,      \* history: the index the build that made DB_DIR returned
    corpus,     \* history: the entries the build that made DB_DIR was given
    users,      \* app.py: username -> {total, streak, completed_challenges}
    reminders,  \* app.py: the list of reminders
    cache,      \* app.py: daily_challenge_cache
    today,      \* date.today(), as a day number
    served,     \* history: the challenges served on the current date
    dbUsers,    \* database.py: the usernames stored through the db module
    apiKey,     \* database.py: whether GROQ_API_KEY is set
    aret,       \* what the last request handler did and returned
    qIndex,     \* the query engine: the vectors of the index, in insertion order
    qRet        \* the query engine: the last query and its result

ragVars == <<docs, db, ret, built, corpus>>
appVars == <<users, reminders, cache, today, served>>
dbVars == <<dbUsers, apiKey>>
queryVars == <<qIndex, qRet>>
vars == <<docs, db, ret, built, corpus, users, reminders, cache, today,
          served, dbUsers, apiKey, aret, qIndex, qRet>>

\* what the steps of one part of the model leave alone
RagOnly == UNCHANGED <<appVars, dbVars, aret, queryVars>>
AppOnly == UNCHANGED <<ragVars, dbVars, queryVars>>
DbOnly == UNCHANGED <<ragVars, appVars, queryVars>>
QueryOnly == UNCHANGED <<ragVars, appVars, dbVars, aret>>

(***************************************************************************)
(* Bounds of the model.                                                    *)
(***************************************************************************)
MaxChunks == 2      \* chunks one source file splits into, at most
MaxDay == 1         \* the last day number the clock reaches
MaxLogs == 1        \* log_carbon calls per user (through the streak)
MaxReminders == 1   \* length of the reminders list

(***************************************************************************)
(* rag.py: the file system.                                                *)
(* A file name is the sequence of its characters, so that endswith is      *)
(* computed and not assumed.                                               *)
(***************************************************************************)
NameA == <<"a", ".", "t", "x", "t">>
NameB == <<"b", ".", "t", "x", "t">>
NameM == <<"n", ".", "m", "d">>

\* os.listdir order: arbitrary, but fixed for a fixed directory.
ListOrder == <<NameA, NameB, NameM>>

FileNames == {ListOrder[i] : i \in 1..Len(ListOrder)}

TxtSuffix == <<".", "t", "x", "t">>

\* str.endswith
EndsWith(s, suf) ==
    /\ Len(s) >= Len(suf)
    /\ SubSeq(s, Len(s) - Len(suf) + 1, Len(s)) = suf

\* One directory entry: nothing, a sub-directory, or a regular file that
\* decodes (ok) into a text of n chunks, or does not decode.
NoEntry == [kind |-> "none", ok |-> TRUE, n |-> 0]
DirEntry == [kind |-> "dir", ok |-> TRUE, n |-> 0]
BadFile == [kind |-> "file", ok |-> FALSE, n |-> 0]
GoodFile(n) == [kind |-> "file", ok |-> TRUE, n |-> n]

Entries == {NoEntry, DirEntry, BadFile} \cup {GoodFile(n) : n \in 0..MaxChunks}

EmptyListing == [f \in FileNames |-> NoEntry]

\* os.listdir(DOCS_DIR)
ListDir(d) == SelectSeq(ListOrder, LAMBDA f : d.files[f].kind # "none")

\* the loop's filter: file.endswith(".txt")
Recognized(d) == SelectSeq(ListDir(d), LAMBDA f : EndsWith(f, TxtSuffix))

\* TextLoader(path).load(): open() of a directory raises, and so does a
\* file whose bytes do not decode; both leave load() as a RuntimeError.
LoadError(e) ==
    IF e.kind = "dir" THEN "IsADirectoryError"
    ELSE IF ~e.ok THEN "DecodeError"
    ELSE "none"

\* The first file of the loop whose load raises, 0 when none does.
FirstFailing(d) ==
    LET fs == Recognized(d)
        bad == {i \in 1..Len(fs) : LoadError(d.files[fs[i]]) # "none"}
    IN  IF bad = {} THEN 0 ELSE CHOOSE i \in bad : \A j \in bad : i <= j

\* The embedder: an external capability, a fixed function of the text.
Embed(text) == <<"vec", text>>

\* splitter.split_documents of one Document: n chunks in document order.
SplitDocument(f, n) ==
    [i \in 1..n |-> [source |-> f, seq |-> i, vector |-> Embed(<<f, i>>)]]

RECURSIVE SplitDocuments(_, _)
\* splitter.split_documents(docs): the chunks of every loaded Document, in
\* the order the loop loaded them.
SplitDocuments(d, fs) ==
    IF fs = <<>> THEN <<>>
    ELSE SplitDocument(Head(fs), d.files[Head(fs)].n)
             \o SplitDocuments(d, Tail(fs))

\* os.path.exists(DB_DIR)
DbDirHasEntries == db.exists /\ db.entries # <<>>
DbDirExists == db.exists

\* Chroma(persist_directory=DB_DIR, ...): the collection as persisted.
LoadIndex == db.entries

\* What Chroma.from_documents has written into DB_DIR once k entries are in.
WrittenDropLast(ix, k) == SubSeq(ix, 1, k - 1)
Written(ix, k) == SubSeq(ix, 1, k)

\* Chroma.from_documents of an empty chunk list: chromadb >= 0.4 rejects
\* the empty id list with a ValueError, older releases accept it.
EmptyOutcomes == {"none", "EmptyIds"}

NoRet ==
    [op |-> "env", kind |-> "none", error |-> "none", index |-> <<>>,
     loaded |-> <<>>, docsOps |-> {}]

NoBuilt == [valid |-> FALSE, index |-> <<>>]

NoDocsDir == [exists |-> FALSE, files |-> EmptyListing]
NoDbDir == [exists |-> FALSE, entries |-> <<>>]

(***************************************************************************)
(* rag.py: create_rag.                                                     *)
(***************************************************************************)
\* lines 16-20: the persist directory exists, so it is opened and returned.
CreateRagLoad ==
    /\ DbDirExists
    /\ ret' = [op |-> "create_rag", kind |-> "loaded", error |-> "none",
               index |-> LoadIndex, loaded |-> <<>>, docsOps |-> {}]
    /\ UNCHANGED <<docs, db, built, corpus>>
    /\ RagOnly

\* lines 22-46: the build.
CreateRagBuild ==
    /\ ~DbDirExists
    /\ RagOnly
    /\ LET made == [docs EXCEPT !.exists = TRUE]      \* os.makedirs
           ops == {"exists", "listdir"}
                    \cup (IF docs.exists THEN {} ELSE {"makedirs"})
           fs == Recognized(made)
           bad == FirstFailing(made)
       IN  /\ docs' = made
           /\ IF bad # 0
              THEN \* loader.load() raises inside the loop: nothing is written
                   /\ ret' = [op |-> "create_rag", kind |-> "raised",
                              error |-> LoadError(made.files[fs[bad]]),
                              index |-> <<>>, loaded |-> SubSeq(fs, 1, bad - 1),
                              docsOps |-> ops \cup {"open"}]
                   /\ UNCHANGED <<db, built, corpus>>
              ELSE LET chunks == SplitDocuments(made, fs)
                       opsR == ops \cup (IF fs = <<>> THEN {} ELSE {"open"})
                   IN  \/ \* from_documents and persist run to the end
                          /\ chunks # <<>> \/ "none" \in EmptyOutcomes
                          /\ db' = [exists |-> TRUE,
                                    entries |-> Written(chunks, Len(chunks))]
                          /\ ret' = [op |-> "create_rag", kind |-> "built",
                                     error |-> "none", index |-> chunks,
                                     loaded |-> fs, docsOps |-> opsR]
                          /\ built' = [valid |-> TRUE, index |-> chunks]
                          /\ corpus' = chunks
                       \/ \* the empty chunk list is rejected by the store
                          /\ chunks = <<>> /\ "EmptyIds" \in EmptyOutcomes
                          /\ db' = [exists |-> TRUE, entries |-> <<>>]
                          /\ ret' = [op |-> "create_rag", kind |-> "raised",
                                     error |-> "EmptyIds", index |-> <<>>,
                                     loaded |-> fs, docsOps |-> opsR]
                          /\ built' = NoBuilt
                          /\ corpus' = chunks
                       \/ \* the write fails with k entries in DB_DIR
                          \E k \in 0..Len(chunks) :
                            /\ db' = [exists |-> TRUE,
                                      entries |-> Written(chunks, k)]
                            /\ ret' = [op |-> "create_rag", kind |-> "raised",
                                       error |-> "IOFailure", index |-> <<>>,
                                       loaded |-> fs, docsOps |-> opsR]
                            /\ built' = NoBuilt
                            /\ corpus' = chunks

(***************************************************************************)
(* The environment of create_rag: the operator edits the two directories.  *)
(***************************************************************************)
PutEntry(f, e) ==
    /\ docs.exists
    /\ e # NoEntry
    /\ docs.files[f] # e
    /\ docs' = [docs EXCEPT !.files[f] = e]
    /\ ret' = NoRet
    /\ UNCHANGED <<db, built, corpus>>
    /\ RagOnly

RemoveEntry(f) ==
    /\ docs.exists
    /\ docs.files[f] # NoEntry
    /\ docs' = [docs EXCEPT !.files[f] = NoEntry]
    /\ ret' = NoRet
    /\ UNCHANGED <<db, built, corpus>>
    /\ RagOnly

MakeDocsDir ==
    /\ ~docs.exists
    /\ docs' = [docs EXCEPT !.exists = TRUE]
    /\ ret' = NoRet
    /\ UNCHANGED <<db, built, corpus>>
    /\ RagOnly

RemoveDocsDir ==
    /\ docs.exists
    /\ docs' = NoDocsDir
    /\ ret' = NoRet
    /\ UNCHANGED <<db, built, corpus>>
    /\ RagOnly

RemoveDbDir ==
    /\ db.exists
    /\ db' = NoDbDir
    /\ built' = NoBuilt
    /\ corpus' = <<>>
    /\ ret' = NoRet
    /\ UNCHANGED docs
    /\ RagOnly

(***************************************************************************)
(* app.py: the in-memory application.                                      *)
(***************************************************************************)
Usernames == {"ann", "bob"}
DbUsernames == Usernames \cup {"guest"}
Messages == {"hi", "bus"}
LogAmounts == {1}

\* app.py lines 61-66
challenges ==
    << [title |-> "Use Public Transport", carbon_value |-> 5],
       [title |-> "Plant a Tree", carbon_value |-> 10],
       [title |-> "Save Water", carbon_value |-> 2],
       [title |-> "No Plastic", carbon_value |-> 3] >>

ChallengeSet == {challenges[i] : i \in 1..Len(challenges)}

\* None, as the cached challenge and as the cached date
NoChallenge == [title |-> "", carbon_value |-> 0]
NoDate == -1

\* a user that is not in the dict, and the record a handler creates
Absent == [present |-> FALSE, total |-> 0, streak |-> 0, completed |-> {}]
NewUser == [present |-> TRUE, total |-> 0, streak |-> 0, completed |-> {}]

\* "if username not in users: users[username] = {...}"
Ensure(us, u) == IF us[u].present THEN us ELSE [us EXCEPT ![u] = NewUser]

\* the except branch of app.py's chat
FallbackReply == <<"Try small steps: reduce waste, save energy, and protect nature!">>

\* the tips of database.py's chat when no key is set
StaticTips == {"plastics", "water", "transport"}

NoUsers == [u \in Usernames |-> Absent]
NoCache == [date |-> NoDate, challenge |-> NoChallenge]

NoAret ==
    [op |-> "none", username |-> "", challenge |-> NoChallenge,
     carbon_saved |-> 0, outcome |-> "none", raised |-> FALSE, reply |-> <<>>]

\* the ways the external chat-completion call of app.py can end
CompletionOutcomes == {"ok", "APIConnectionError", "IndexError"}

\* app.py lines 78-100
Chat(u, m) ==
    \E o \in CompletionOutcomes :
        /\ aret' = [NoAret EXCEPT !.op = "chat", !.username = u, !.outcome = o,
                       !.reply = IF o = "ok" THEN <<"completion", m>>
                                 ELSE FallbackReply]
        /\ UNCHANGED <<users, reminders, cache, today, served>>
        /\ AppOnly

\* the ways the tip request of database.py can end: a payload with tips, an
\* empty payload, a requests exception, or a payload of another shape
TipOutcomes == {"ok", "empty", "ConnectionError", "HTTPError", "AttributeError"}
RequestExceptions == {"ConnectionError", "HTTPError"}

\* database.py lines 49-81
DbChat(u, m) ==
    /\ dbUsers' = dbUsers \cup {u}
    /\ IF ~apiKey
       THEN \E t \in StaticTips :
              aret' = [NoAret EXCEPT !.op = "db_chat", !.username = u,
                          !.reply = <<t, "You asked:", m>>]
       ELSE \E o \in TipOutcomes :
              aret' = [NoAret EXCEPT !.op = "db_chat", !.username = u,
                          !.outcome = o,
                          !.raised = (o \notin RequestExceptions \cup {"ok", "empty"}),
                          !.reply =
                             IF o = "ok" THEN <<"tip", "You asked:", m>>
                             ELSE IF o = "empty"
                                  THEN <<"Live sustainably!", "You asked:", m>>
                             ELSE IF o \in RequestExceptions
                                  THEN <<"Error fetching tips:", o>>
                             ELSE <<>>]
    /\ UNCHANGED apiKey
    /\ DbOnly

\* the cache test of daily_challenge (app.py line 108)
CacheFresh == cache.date = today /\ cache.challenge # NoChallenge

\* app.py lines 105-114
DailyChallenge ==
    \E c \in ChallengeSet :
        LET hit == CacheFresh
            out == IF hit THEN cache.challenge ELSE c
        IN  /\ cache' = IF hit THEN cache ELSE [date |-> today, challenge |-> c]
            /\ served' = served \cup {out.title}
            /\ aret' = [NoAret EXCEPT !.op = "daily_challenge", !.challenge = out]
            /\ UNCHANGED <<users, reminders, today>>
            /\ AppOnly

\* the "already completed" test of complete_challenge (app.py line 135)
NeverCompleted(us, u, c) == FALSE
AlreadyCompleted(us, u, c) == c.title \in us[u].completed

\* app.py lines 119-144
CompleteChallenge(u) ==
    \E c \in ChallengeSet :
        LET us == Ensure(users, u)
            miss == cache.challenge = NoChallenge
            ch == IF miss THEN c ELSE cache.challenge
        IN  /\ cache' = IF miss THEN [date |-> today, challenge |-> c] ELSE cache
            /\ served' = served \cup {ch.title}
            /\ IF AlreadyCompleted(us, u, ch)
               THEN /\ users' = us
                    /\ aret' = [NoAret EXCEPT !.op = "complete_challenge",
                                   !.username = u, !.challenge = ch,
                                   !.reply = <<"already">>]
               ELSE /\ users' = [us EXCEPT
                                   ![u].completed = @ \cup {ch.title},
                                   ![u].total = @ + ch.carbon_value,
                                   ![u].streak = @ + 1]
                    /\ aret' = [NoAret EXCEPT !.op = "complete_challenge",
                                   !.username = u, !.challenge = ch,
                                   !.carbon_saved = ch.carbon_value,
                                   !.reply = <<"completed">>]
            /\ UNCHANGED <<reminders, today>>
            /\ AppOnly

\* app.py lines 149-155; the number of logged amounts is bounded
LogCarbon(u, a) ==
    /\ users[u].streak - Cardinality(users[u].completed) < MaxLogs
    /\ users' = [Ensure(users, u) EXCEPT ![u].total = @ + a, ![u].streak = @ + 1]
    /\ aret' = [NoAret EXCEPT !.op = "log_carbon", !.username = u]
    /\ UNCHANGED <<reminders, cache, today, served>>
    /\ AppOnly

\* app.py lines 185-188; the list is bounded
AddReminder(u) ==
    /\ Len(reminders) < MaxReminders
    /\ reminders' = Append(reminders,
                      [username |-> u, habit |-> "walk", frequency |-> "daily",
                       enabled |-> TRUE])
    /\ aret' = [NoAret EXCEPT !.op = "add_reminder", !.username = u]
    /\ UNCHANGED <<users, cache, today, served>>
    /\ AppOnly

\* date.today() moves on; nothing of the program runs
AdvanceDate ==
    /\ today < MaxDay
    /\ today' = today + 1
    /\ served' = {}
    /\ aret' = NoAret
    /\ UNCHANGED <<users, reminders, cache>>
    /\ AppOnly

(***************************************************************************)
(* The query engine of the design (section 4.4).  The repository has no    *)
(* code for it: rag.py only builds or opens the store.                     *)
(***************************************************************************)
MaxEntries == 2     \* entries of the index
MaxK == 3           \* the largest k asked for

ZeroVec == <<0, 0>>

\* the declared dimension of the index
IndexDim == Len(ZeroVec)

\* the vectors entries and queries are drawn from: the zero vector, a
\* parallel pair, an orthogonal pair and an opposite pair
Vectors == {ZeroVec, <<1, 0>>, <<2, 0>>, <<0, 1>>, <<1, 1>>, <<-1, 0>>}

\* a query vector of another dimension
ShortVec == <<1>>

RECURSIVE Dot(_, _)
Dot(a, b) ==
    IF a = <<>> \/ b = <<>> THEN 0
    ELSE Head(a) * Head(b) + Dot(Tail(a), Tail(b))

\* Cosine similarity as the exact pair (num, den2) standing for
\* num / sqrt(den2); a zero-magnitude vector scores 0.
Cosine(q, v) ==
    IF Dot(q, q) = 0 \/ Dot(v, v) = 0 THEN [num |-> 0, den2 |-> 1]
    ELSE [num |-> Dot(q, v), den2 |-> Dot(q, q) * Dot(v, v)]

Sign(x) == IF x > 0 THEN 1 ELSE IF x < 0 THEN -1 ELSE 0

\* s > t, compared through the monotone map x -> sign(x) * x^2
ScoreGreater(s, t) ==
    Sign(s.num) * s.num * s.num * t.den2 > Sign(t.num) * t.num * t.num * s.den2

ScoreEqual(s, t) == ~ScoreGreater(s, t) /\ ~ScoreGreater(t, s)

\* entry j comes before entry i: a higher score, or an equal score and an
\* earlier insertion
BeforeLaterFirst(ix, q, j, i) ==
    \/ ScoreGreater(Cosine(q, ix[j]), Cosine(q, ix[i]))
    \/ ScoreEqual(Cosine(q, ix[j]), Cosine(q, ix[i])) /\ j > i
Before(ix, q, j, i) ==
    \/ ScoreGreater(Cosine(q, ix[j]), Cosine(q, ix[i]))
    \/ ScoreEqual(Cosine(q, ix[j]), Cosine(q, ix[i])) /\ j < i

\* the place of entry i in the ranking
RankOf(ix, q, i) == 1 + Cardinality({j \in 1..Len(ix) : Before(ix, q, j, i)})

\* how many entries a query returns
Take(n, k) == IF k <= 0 THEN 0 ELSE IF k < n THEN k ELSE n

\* query(index, query_vector, k): the positions of the returned entries
Ranked(ix, q, k) ==
    [r \in 1..Take(Len(ix), k) |->
        CHOOSE i \in 1..Len(ix) : RankOf(ix, q, i) = r]

NoQuery == [asked |-> FALSE, q |-> ZeroVec, k |-> 0, error |-> "none", result |-> <<>>]

\* build: one more entry in the index
AddEntry(v) ==
    /\ Len(qIndex) < MaxEntries
    /\ qIndex' = Append(qIndex, v)
    /\ qRet' = NoQuery
    /\ QueryOnly

Query(q, k) ==
    /\ qRet' = IF Len(q) # IndexDim
               THEN [asked |-> TRUE, q |-> q, k |-> k,
                     error |-> "DimensionMismatch", result |-> <<>>]
               ELSE [asked |-> TRUE, q |-> q, k |-> k, error |-> "none",
                     result |-> Ranked(qIndex, q, k)]
    /\ UNCHANGED qIndex
    /\ QueryOnly

(***************************************************************************)
(* The specifications.                                                     *)
(***************************************************************************)
\* The state after the modules are imported: no directory, the empty
\* dicts and lists of app.py, an empty index; GROQ_API_KEY is set or not
\* as keys allows.
Boot(keys) ==
    /\ docs = NoDocsDir
    /\ db = NoDbDir
    /\ ret = NoRet
    /\ built = NoBuilt
    /\ corpus = <<>>
    /\ users = NoUsers
    /\ reminders = <<>>
    /\ cache = NoCache
    /\ today = 0
    /\ served = {}
    /\ dbUsers = {}
    /\ apiKey \in keys
    /\ aret = NoAret
    /\ qIndex = <<>>
    /\ qRet = NoQuery

Init == Boot({FALSE})

\* The database-backed application runs with or without GROQ_API_KEY.
DbInit == Boot(BOOLEAN)

RagNext ==
    \/ CreateRagLoad
    \/ CreateRagBuild
    \/ \E f \in FileNames, e \in Entries : PutEntry(f, e)
    \/ \E f \in FileNames : RemoveEntry(f)
    \/ MakeDocsDir
    \/ RemoveDocsDir
    \/ RemoveDbDir

SpecRag == Init /\ [][RagNext]_vars

AppNext ==
    \/ DailyChallenge
    \/ \E u \in Usernames : CompleteChallenge(u)
    \/ \E u \in Usernames, a \in LogAmounts : LogCarbon(u, a)
    \/ \E u \in Usernames : AddReminder(u)
    \/ AdvanceDate

SpecApp == Init /\ [][AppNext]_vars

\* the chat handlers of the two applications
ChatNext ==
    \/ \E u \in DbUsernames, m \in Messages : Chat(u, m)
    \/ \E u \in DbUsernames, m \in Messages : DbChat(u, m)

SpecChat == DbInit /\ [][ChatNext]_vars

QueryNext ==
    \/ \E v \in Vectors : AddEntry(v)
    \/ \E q \in Vectors \cup {ShortVec}, k \in -1..MaxK : Query(q, k)

SpecQuery == Init /\ [][QueryNext]_vars

(***************************************************************************)
(* Properties of create_rag, checked under SpecRag.                        *)
(***************************************************************************)
\* what a build of the source directory as it is now would index
FreshIndex == SplitDocuments(docs, Recognized(docs))

\* the recognized entries that are regular files, and those that decode
RegularTextFiles ==
    SelectSeq(Recognized(docs), LAMBDA f : docs.files[f].kind = "file")
DecodableTextFiles ==
    SelectSeq(RegularTextFiles, LAMBDA f : docs.files[f].ok)

\* the last create_rag call took the build branch
BuildRan == ret.op = "create_rag" /\ ret.kind # "loaded"

\* C1: whenever DB_DIR exists, a create_rag call returns the persisted
\* index and neither lists, reads nor creates DOCS_DIR; both directories
\* are as before, and the index is the one the build returned, however the
\* source directory has changed since.
C1_LoadLeavesSourceAlone ==
    [][ (db.exists /\ ret'.op = "create_rag") =>
            /\ ret'.kind = "loaded"
            /\ ret'.docsOps = {}
            /\ ret'.index = db.entries
            /\ built.valid => ret'.index = built.index
            /\ docs' = docs
            /\ db' = db ]_vars

\* C1 happens: an index is loaded although a build of the source directory
\* as it is now would give another one.
C1_Witness ==
    /\ ret.op = "create_rag" /\ ret.kind = "loaded"
    /\ built.valid /\ ret.index # <<>>
    /\ docs.exists /\ FirstFailing(docs) = 0
    /\ FreshIndex # ret.index

\* C2: the persisted index is fully built or does not exist, and no load
\* returns an index that misses entries of the corpus the build was given.
C2_AtomicBuild ==
    /\ db.exists => db.entries = corpus
    /\ (ret.op = "create_rag" /\ ret.kind = "loaded") => ret.index = corpus

C4_DecodeFailureSkipped ==
    (BuildRan /\ RegularTextFiles # DecodableTextFiles) =>
        /\ ret.error # "DecodeError"
        /\ ret.kind = "built" => ret.loaded = DecodableTextFiles

\* C5: a build that had to create the source directory succeeds, unless the
\* storage fails, and returns and persists an index with no entries.
C5_MissingSourceDirBuilds ==
    (BuildRan /\ "makedirs" \in ret.docsOps /\ ret.error # "IOFailure") =>
        /\ docs.exists
        /\ ret.kind = "built" /\ ret.index = <<>>
        /\ db.exists /\ db.entries = <<>>

\* C6: a build loads exactly the regular files with the text extension that
\* lie directly in the source directory, and an entry that is not a regular
\* file does not make it fail.
C6_OneDocumentPerTextFile ==
    BuildRan =>
        /\ ret.error # "IsADirectoryError"
        /\ ret.kind = "built" => ret.loaded = RegularTextFiles

(***************************************************************************)
(* Properties of the request handlers, checked under SpecChat and SpecApp. *)
(***************************************************************************)
\* the outcomes of the external call that are no failure
Successes == {"none", "ok", "empty"}

\* C7: a chat request whose external call fails returns the static
\* fallback reply with carbon_saved 0, and leaves users, reminders and the
\* challenge cache as they were.
C7_ChatFallsBack ==
    [][ (aret'.op \in {"chat", "db_chat"} /\ aret'.outcome \notin Successes) =>
            /\ ~aret'.raised
            /\ aret'.reply = FallbackReply
            /\ aret'.carbon_saved = 0
            /\ UNCHANGED <<users, reminders, cache>> ]_vars

\* C9: complete_challenge credits the current challenge to the user exactly
\* when its title is not yet in the user's completed set; otherwise it
\* returns 0 and leaves the user as it was.  No other user changes, and a
\* completed set never loses a title, so a title is credited at most once.
C9_CreditedOnce ==
    [][ /\ \A u \in Usernames : users[u].completed \subseteq users'[u].completed
        /\ \A u \in Usernames :
             (aret'.op = "complete_challenge" /\ aret'.username = u) =>
                LET ch == aret'.challenge
                IN  /\ ch = cache'.challenge
                    /\ ch.title \in users[u].completed =>
                         /\ aret'.carbon_saved = 0
                         /\ users'[u] = users[u]
                    /\ ch.title \notin users[u].completed =>
                         /\ aret'.carbon_saved = ch.carbon_value
                         /\ users'[u].total = users[u].total + ch.carbon_value
                         /\ users'[u].streak = users[u].streak + 1
                         /\ users'[u].completed =
                                users[u].completed \cup {ch.title}
                    /\ \A w \in Usernames \ {u} : users'[w] = users[w] ]_vars

\* C9 happens: a second completion of the same title is refused for a user
\* who also logged carbon, while another user has a record.
C9_Witness ==
    /\ aret.op = "complete_challenge" /\ aret.reply = <<"already">>
    /\ aret.username = "ann"
    /\ users["ann"].streak > Cardinality(users["ann"].completed)
    /\ users["bob"].present

\* C10: on one date every daily_challenge and complete_challenge call
\* serves the same challenge, and complete_challenge never uses a challenge
\* cached on an earlier date.
C10_OneChallengePerDate ==
    /\ Cardinality(served) <= 1
    /\ aret.op = "complete_challenge" => cache.date = today

(***************************************************************************)
(* Properties of the query engine, checked under SpecQuery.                *)
(***************************************************************************)
\* C8: a query of the declared dimension returns min(k, entry count)
\* entries, none when k <= 0; the returned entries are distinct, ordered by
\* non-increasing cosine similarity with equal scores in insertion order,
\* and no entry left out ranks before a returned one.
C8_TopK ==
    (qRet.asked /\ qRet.error = "none") =>
        LET r == qRet.result
            n == Len(qIndex)
            want == IF qRet.k <= 0 THEN 0
                    ELSE IF qRet.k > n THEN n ELSE qRet.k
            S(p) == Cosine(qRet.q, qIndex[p])
        IN  /\ Len(r) = want
            /\ \A i \in 1..Len(r) : r[i] \in 1..n
            /\ \A i, j \in 1..Len(r) :
                 i < j =>
                    /\ r[i] # r[j]
                    /\ ~ScoreGreater(S(r[j]), S(r[i]))
                    /\ ScoreEqual(S(r[i]), S(r[j])) => r[i] < r[j]
            /\ \A p \in 1..n :
                 (\A i \in 1..Len(r) : r[i] # p) =>
                    \A i \in 1..Len(r) :
                        /\ ~ScoreGreater(S(p), S(r[i]))
                        /\ ScoreEqual(S(p), S(r[i])) => r[i] < p

\* C8 happens: k exceeds the entry count and two entries tie.
C8_Witness ==
    /\ qRet.asked /\ qRet.error = "none"
    /\ qRet.k > Len(qIndex) /\ Len(qRet.result) = 2
    /\ qIndex[1] # qIndex[2]
    /\ ScoreEqual(Cosine(qRet.q, qIndex[1]), Cosine(qRet.q, qIndex[2]))
    /\ Cosine(qRet.q, qIndex[1]).num > 0

====
